---- MODULE Spec2Model ----
(***************************************************************************)
(* LUCID lookup service (src/server.js): the in-memory cache, its refresh  *)
(* protocol (updateCache), the disk mirror and the request handlers.       *)
(*                                                                         *)
(* Text values are sequences of one-character strings, so that trim() and  *)
(* toUpperCase() are computed and not assumed.  A JavaScript Map is a      *)
(* sequence of <<key, value>> pairs in insertion order with unique keys.   *)
(* One action is one run of the event loop between two suspension points   *)
(* (await of network or file I/O): everything the code does synchronously  *)
(* in between, returns to callers included, happens in that action.        *)
(***************************************************************************)
EXTENDS Integers, Sequences, FiniteSets, TLC

\* ------------------------------------------------------------------ bounds
\* Number of concurrent request/callback slots (besides startup).
MaxProcs == 2
\* Largest value of the wall clock (Date.now(), in hours).
MaxTime == 3
\* Number of refreshes (entries into Loading) one run may start.
MaxRefreshes == 2

\* ------------------------------------------------------------ JS values
\* null / undefined of a numeric field (memoryCache.lastUpdate).
Null == -1

Truthy(n) == n # Null /\ n # 0

\* String.prototype.toUpperCase, per character.
LowerCase == <<"a","b","c","d","e","f","g","h","i","j","k","l","m",
               "n","o","p","q","r","s","t","u","v","w","x","y","z">>
UpperCase == <<"A","B","C","D","E","F","G","H","I","J","K","L","M",
               "N","O","P","Q","R","S","T","U","V","W","X","Y","Z">>

UpperChar(c) ==
  IF \E i \in 1..Len(LowerCase) : LowerCase[i] = c
  THEN UpperCase[CHOOSE i \in 1..Len(LowerCase) : LowerCase[i] = c]
  ELSE c

toUpperCase(s) == [i \in 1..Len(s) |-> UpperChar(s[i])]

WhiteSpace == {" ", "\t", "\n"}

\* String.prototype.trim: drops leading and trailing white space.
trim(s) ==
  LET inked == {i \in 1..Len(s) : s[i] \notin WhiteSpace}
  IN  IF inked = {} THEN <<>>
      ELSE LET first == CHOOSE i \in inked : \A j \in inked : i <= j
               last  == CHOOSE i \in inked : \A j \in inked : j <= i
           IN  SubSeq(s, first, last)

\* The key without the upper-casing.
normalizedNoUpper(s) == trim(s)

\* regNum.trim().toUpperCase() / lucid.trim().toUpperCase()
normalized(s) == toUpperCase(trim(s))

\* a || b on strings: the empty string (and undefined) is falsy.
Or(a, b) == IF a # <<>> THEN a ELSE b

\* producer.<name>: undefined when the entry has no such child; undefined is
\* falsy and every alias chain ends in '', so it is read as the empty string.
Field(producer, name) ==
  IF name \in DOMAIN producer THEN producer[name] ELSE <<>>

\* ------------------------------------------------------------------ Map
EmptyMap == <<>>

MapSize(m) == Len(m)

MapHas(m, k) == \E i \in 1..Len(m) : m[i][1] = k

MapGet(m, k) == m[CHOOSE i \in 1..Len(m) : m[i][1] = k][2]

\* A set that keeps the value already stored under the key.
MapSetKeepsFirst(m, k, v) ==
  IF MapHas(m, k) THEN m ELSE Append(m, <<k, v>>)

\* Map.prototype.set: a new key is appended, a known key keeps its place.
MapSet(m, k, v) ==
  IF MapHas(m, k)
  THEN [m EXCEPT ![CHOOSE i \in 1..Len(m) : m[i][1] = k] = <<k, v>>]
  ELSE Append(m, <<k, v>>)

MapKeys(m) == {m[i][1] : i \in 1..Len(m)}

\* new Map(iterable of [key, value])
RECURSIVE MapFrom(_)
MapFrom(pairs) ==
  IF pairs = <<>> THEN EmptyMap
  ELSE LET n == Len(pairs)
       IN  MapSet(MapFrom(SubSeq(pairs, 1, n - 1)), pairs[n][1], pairs[n][2])

\* Array.from(map.entries())
MapEntries(m) == m

\* -------------------------------------------------- downloadAndParseXML
\* The chain of lines 94-117 without its last branch.
ContainerPathsThree ==
  <<"Root.ListOfProducers.Producer", "producers.producer",
    "RegisterExcerpt.Producer">>

\* The parsed document (parser.parse(response.data)) is a function from the
\* container paths it holds to the value found there: an array of entries,
\* or the one entry itself when the container has a single child.
ContainerPaths ==
  <<"Root.ListOfProducers.Producer", "producers.producer",
    "RegisterExcerpt.Producer", "Producers.Producer">>

AsArray(value) == IF value.isArray THEN value.items ELSE <<value.items[1]>>

\* lines 91-117: the first known container path that is present wins.
FindProducers(result) ==
  LET found == {i \in 1..Len(ContainerPaths) : ContainerPaths[i] \in DOMAIN result}
  IN  IF found = {} THEN <<>>
      ELSE AsArray(result[ContainerPaths[CHOOSE i \in found : \A j \in found : i <= j]])

\* The alias chain of the registration number in the reverse order.
RegNumReversed(producer) ==
  Or(Field(producer, "RegNr"),
  Or(Field(producer, "registration_number"),
  Or(Field(producer, "registrationNumber"),
  Or(Field(producer, "RegistrationNumber"), <<>>))))

\* lines 129-132
RegNum(producer) ==
  Or(Field(producer, "RegistrationNumber"),
  Or(Field(producer, "registrationNumber"),
  Or(Field(producer, "registration_number"),
  Or(Field(producer, "RegNr"), <<>>))))

CompanyName(producer) ==
  Or(Field(producer, "ProducerName"),
  Or(Field(producer, "Name"),
  Or(Field(producer, "CompanyName"),
  Or(Field(producer, "name"), <<>>))))

Record(producer) ==
  [registration_number |-> RegNum(producer),
   company_name |-> CompanyName(producer),
   vat_number |-> Or(Field(producer, "VATNumber"),
                  Or(Field(producer, "UstIdNr"),
                  Or(Field(producer, "vat_number"), <<>>))),
   tax_number |-> Or(Field(producer, "TaxNumber"),
                  Or(Field(producer, "Steuernummer"),
                  Or(Field(producer, "tax_number"), <<>>))),
   address |-> Or(Field(producer, "Address"), Or(Field(producer, "address"), <<>>)),
   city |-> Or(Field(producer, "City"), Or(Field(producer, "city"), <<>>)),
   postal_code |-> Or(Field(producer, "PostalCode"),
                   Or(Field(producer, "postal_code"), <<>>))]

\* lines 125-146: the loop that fills dataMap, entries in document order.
RECURSIVE BuildMap(_)
BuildMap(producers) ==
  IF producers = <<>> THEN EmptyMap
  ELSE LET n == Len(producers)
           rest == BuildMap(SubSeq(producers, 1, n - 1))
           producer == producers[n]
       IN  IF RegNum(producer) # <<>>
           THEN MapSet(rest, normalized(RegNum(producer)), Record(producer))
           ELSE rest

\* lines 86-149: from the parsed document to the returned dataMap.
ParseProducers(result) == BuildMap(FindProducers(result))

\* ------------------------------------------------------------ environment
\* config.cache_ttl_hours (CACHE_TTL_HOURS), in the clock's unit.
cache_ttl_hours == 2

\* config.internal_api_key (INTERNAL_API_KEY): '' when not set.
ApiKeys == {<<>>, <<"k">>}

Txt1 == <<"d","e","1">>
Txt2 == <<" ","D","e","1"," ">>
Txt3 == <<"D","E","2">>

\* Documents the upstream can answer with, after parser.parse.
DocAcme ==
  ("Root.ListOfProducers.Producer" :>
     [isArray |-> FALSE,
      items |-> <<("RegistrationNumber" :> Txt1) @@ ("Name" :> <<"A">>)>>])

DocList ==
  ("Producers.Producer" :>
     [isArray |-> TRUE,
      items |-> <<("RegNr" :> toUpperCase(Txt1)) @@ ("name" :> <<"X">>),
                  ("Name" :> <<"Z">>),
                  ("registration_number" :> Txt2) @@ ("CompanyName" :> <<"Y">>),
                  ("RegistrationNumber" :> Txt3) @@ ("ProducerName" :> <<"W">>)>>])

DocDrift ==
  ("Registry.Entry" :>
     [isArray |-> FALSE,
      items |-> <<("RegistrationNumber" :> Txt1) @@ ("Name" :> <<"A">>)>>])

Documents == {DocAcme, DocList, DocDrift}

\* Entries that exercise the alias chains of lines 129-143: an empty first
\* alias, two aliases that disagree, and no registration number at all.
EntryAliases ==
  <<("RegistrationNumber" :> <<>>) @@ ("registrationNumber" :> <<"D","E","3">>)
      @@ ("RegNr" :> <<"D","E","4">>)
      @@ ("Name" :> <<"N">>) @@ ("name" :> <<"n">>)
      @@ ("UstIdNr" :> <<"U">>) @@ ("vat_number" :> <<"v">>)
      @@ ("Steuernummer" :> <<"S">>)
      @@ ("Address" :> <<>>) @@ ("address" :> <<"a">>)
      @@ ("City" :> <<"C">>) @@ ("city" :> <<"c">>)
      @@ ("postal_code" :> <<"9">>),
    ("RegNr" :> <<"D","E","5">>) @@ ("registration_number" :> <<"D","E","6">>)
      @@ ("CompanyName" :> <<"M">>) @@ ("ProducerName" :> <<"P">>)
      @@ ("TaxNumber" :> <<"T">>) @@ ("tax_number" :> <<"t">>)
      @@ ("PostalCode" :> <<"8">>) @@ ("postal_code" :> <<"7">>),
    ("RegistrationNumber" :> <<>>) @@ ("RegNr" :> <<>>) @@ ("Name" :> <<"Q">>)>>

DocAliases ==
  ("RegisterExcerpt.Producer" :> [isArray |-> TRUE, items |-> EntryAliases])

\* A document that holds producers under the given container path.
InLayout(path, isArray, items) ==
  (path :> [isArray |-> isArray, items |-> items])

\* The same entries under each of the four container paths: one entry as the
\* only child, one entry in a list, and a list of entries.
Layouts ==
  {"Root.ListOfProducers.Producer", "producers.producer",
   "RegisterExcerpt.Producer", "Producers.Producer"}

LayoutDocuments ==
  {InLayout(path, shape[1], shape[2]) :
     path \in Layouts,
     shape \in {<<FALSE, DocAcme["Root.ListOfProducers.Producer"].items>>,
                <<TRUE, DocAcme["Root.ListOfProducers.Producer"].items>>,
                <<TRUE, DocList["Producers.Producer"].items>>}}

\* A document with two of the known containers.
DocTwoContainers ==
  InLayout("Producers.Producer", TRUE, DocList["Producers.Producer"].items)
    @@ InLayout("producers.producer", FALSE,
                DocAcme["Root.ListOfProducers.Producer"].items)

AllDocuments ==
  Documents \cup LayoutDocuments \cup {DocAliases, DocTwoContainers}

\* What makes downloadAndParseXML throw: HTTP 429, or a document the parser
\* rejects.
FetchErrors == {"429", "malformed"}

\* req.query.lucid: <<>> stands for a missing or empty parameter.
Queries == {<<>>, Txt2, Txt3}

\* Spellings of the same numbers, and numbers no document holds.
QueryVariants ==
  {<<>>, Txt1, toUpperCase(Txt1), Txt2, <<"d","E","1"," ">>, <<"\t","d","e","1">>,
   <<"D","E"," ","1">>, Txt3, <<"d","e","2">>, <<"D","E","3">>, <<"D","E","4">>,
   <<"d","e","6">>, <<"D","E","9">>, <<" ">>}

\* ------------------------------------------------------------------ state
VARIABLES
  memoryCache,  \* [data, lastUpdate, isLoading]              (lines 31-35)
  file,         \* CACHE_FILE on disk
  config,       \* [internal_api_key]                         (lines 20-28)
  now,          \* Date.now()
  phase,        \* "boot" | "listening" | "exited"
  procs,        \* the running handlers and callbacks, with their locals
  started       \* number of refreshes that entered Loading so far (and of
                \* test-loads started, in the v4 server)

vars == <<memoryCache, file, config, now, phase, procs, started>>

NoFile == [kind |-> "none"]
Corrupt == [kind |-> "corrupt"]

\* The image stamped with the time of the write, not of the install.
CacheDataStampedAtWrite(mc, newData) ==
  [kind |-> "json", lastUpdate |-> now,
   count |-> MapSize(newData), data |-> MapEntries(newData)]

\* lines 204-208: the object handed to JSON.stringify.
CacheData(mc, newData) ==
  [kind |-> "json", lastUpdate |-> mc.lastUpdate,
   count |-> MapSize(newData), data |-> MapEntries(newData)]

NoResp == [status |-> 0]
NoDoc == <<>>

ProcIds == 0..MaxProcs
Main == 0

\* A slot: the handler's position and locals.  lucid: req.query.lucid;
\* normalized: the const of line 279;
\* result: the parsed document; newData, cacheData: locals of updateCache.
\* History kept for the properties only, while the slot is in use:
\* rid (which refresh the slot runs, 0: none), pre (the snapshot and the file
\* as that refresh found them), dropped (the statuses answered to lookups
\* whose updateCache call was dropped while this refresh was loading).
NoPre == [data |-> EmptyMap, lastUpdate |-> Null, file |-> NoFile]

Free ==
  [kind |-> "none", pc |-> "free", lucid |-> <<>>, normalized |-> <<>>,
   force |-> FALSE,
   result |-> NoDoc, newData |-> EmptyMap, cacheData |-> NoFile, rid |-> 0,
   pre |-> NoPre, dropped |-> {}, resp |-> NoResp]

\* A file left by an earlier run of the service.
InitialFiles ==
  {NoFile, Corrupt,
   [kind |-> "json", lastUpdate |-> 1, count |-> 1,
    data |-> MapEntries(ParseProducers(DocAcme))]}

Init ==
  /\ memoryCache = [data |-> EmptyMap, lastUpdate |-> Null, isLoading |-> FALSE]
  /\ file \in InitialFiles
  /\ config \in {[internal_api_key |-> k] : k \in ApiKeys}
  /\ now = 1
  /\ phase = "boot"
  /\ procs = [p \in ProcIds |->
                IF p = Main THEN [Free EXCEPT !.kind = "startup", !.pc = "readFile"]
                ELSE Free]
  /\ started = 0

\* A finished handler's response is delivered before anything else runs: a
\* slot in "done" is inert, so this loses no behaviour of the service.
Quiet == \A p \in ProcIds \ {Main} : procs[p].pc # "done"

\* A new request takes the lowest free slot (the slots are interchangeable).
FreeSlot(p) ==
  /\ p # Main
  /\ procs[p].pc = "free"
  /\ \A q \in 1..(p - 1) : procs[q].pc # "free"

\* The positions inside updateCache after line 190 and before line 222.
LoadingPcs == {"download", "mkdir", "writeFile"}

Loaders == {p \in ProcIds : procs[p].pc \in LoadingPcs}

\* ------------------------------------------------------------ updateCache
\* The TTL comparison off by one: a cache exactly as old as the TTL is fresh.
TtlFreshOffByOne(force, mc, t) ==
  /\ ~force
  /\ Truthy(mc.lastUpdate)
  /\ (t - mc.lastUpdate) <= cache_ttl_hours

\* The TTL guard applied to forced calls too.
TtlFreshForAnyCall(force, mc, t) ==
  /\ Truthy(mc.lastUpdate)
  /\ (t - mc.lastUpdate) < cache_ttl_hours

\* lines 176-182: the early return of a non-forced call on a fresh cache.
TtlFresh(force, mc, t) ==
  /\ ~force
  /\ Truthy(mc.lastUpdate)
  /\ (t - mc.lastUpdate) < cache_ttl_hours

\* The guard against parallel updates left out.
AlreadyLoadingUnguarded(mc) == FALSE

\* lines 185-188: the early return while another update is running.
AlreadyLoading(mc) == mc.isLoading

\* line 190
BeginLoading(mc) == [mc EXCEPT !.isLoading = TRUE]

\* Only the map is replaced; lastUpdate keeps the old snapshot's time.
InstallDataOnly(mc, newData, t) == [mc EXCEPT !.data = newData]

\* lines 197-198: no await between the two assignments.
Install(mc, newData, t) == [mc EXCEPT !.data = newData, !.lastUpdate = t]

\* lines 221-223
Finally(mc) == [mc EXCEPT !.isLoading = FALSE]

\* No finally: the flag is cleared on the success path only.
FinallyOnSuccessOnly(mc) == mc

\* A failed download that also invalidates the cache.
OnDownloadErrorClears(mc) ==
  Finally([mc EXCEPT !.data = EmptyMap, !.lastUpdate = Null])

\* lines 221-223, reached from the catch block of line 218.
FinallyAfterError(mc) == Finally(mc)

\* lines 218-223: the error of the download is rethrown, the flag cleared.
OnDownloadError(mc) == FinallyAfterError(mc)

\* The disk error rethrown to the caller of updateCache.
DiskErrorRethrown(e) == e

\* lines 212-215: the error of mkdir/writeFile is logged and swallowed; what
\* is left to propagate out of the inner try is no error.
DiskError(e) == "none"

\* ---------------------------------------------------------------- callers
\* A lookup that refreshes whatever the cache holds.
CacheEmptyAlways(mc) == TRUE

\* line 282
CacheEmpty(mc) == MapSize(mc.data) = 0

\* lines 306-308, 319-321, 368-370 (minutes; the clock counts hours)
AgeMinutes(mc, t) ==
  IF Truthy(mc.lastUpdate) THEN (t - mc.lastUpdate) * 60 ELSE Null

\* The lookup made with the query as it was sent.
LookupResponseRawQuery(mc, lucid, key, t) ==
  IF MapHas(mc.data, lucid)
  THEN [status |-> 200,
        body |-> [ok |-> TRUE, registered |-> TRUE, status |-> "registered",
                  lucid |-> lucid,
                  company |-> MapGet(mc.data, lucid).company_name,
                  details |-> MapGet(mc.data, lucid),
                  checkedAt |-> t, cacheAge |-> AgeMinutes(mc, t)]]
  ELSE [status |-> 200,
        body |-> [ok |-> TRUE, registered |-> FALSE, status |-> "not_found",
                  lucid |-> lucid, company |-> Null, details |-> Null,
                  checkedAt |-> t, cacheAge |-> AgeMinutes(mc, t)]]

\* lines 294-323: the answer of /api/lucid/validate from the current cache.
LookupResponse(mc, lucid, key, t) ==
  IF MapHas(mc.data, key)
  THEN [status |-> 200,
        body |-> [ok |-> TRUE, registered |-> TRUE, status |-> "registered",
                  lucid |-> lucid,
                  company |-> MapGet(mc.data, key).company_name,
                  details |-> MapGet(mc.data, key),
                  checkedAt |-> t, cacheAge |-> AgeMinutes(mc, t)]]
  ELSE [status |-> 200,
        body |-> [ok |-> TRUE, registered |-> FALSE, status |-> "not_found",
                  lucid |-> lucid, company |-> Null, details |-> Null,
                  checkedAt |-> t, cacheAge |-> AgeMinutes(mc, t)]]

\* lines 359-378: the body of /api/stats.
StatsResponse(mc, cfg, t) ==
  [status |-> 200,
   body |-> [ok |-> TRUE,
             entries |-> MapSize(mc.data),
             lastUpdate |-> mc.lastUpdate,
             ageMinutes |-> AgeMinutes(mc, t),
             isLoading |-> mc.isLoading,
             cache_ttl_hours |-> cache_ttl_hours,
             api_key_required |-> cfg.internal_api_key # <<>>]]

\* What the caller of updateCache does once the call has returned
\* (error = "none") or thrown: lines 284-323 (validate), 341-353 (refresh),
\* 394-399 (startup, awaited and caught), 405 and 412 (not awaited).
Resume(proc, error, mc, t) ==
  CASE proc.kind = "validate" ->
         [proc EXCEPT !.pc = "done",
                      !.resp = IF error # "none"
                               THEN [status |-> 503, body |-> [ok |-> FALSE]]
                               ELSE LookupResponse(mc, proc.lucid,
                                                   proc.normalized, t)]
    [] proc.kind = "refresh" ->
         [proc EXCEPT !.pc = "done",
                      !.resp = IF error # "none"
                               THEN [status |-> 500,
                                     body |-> [ok |-> FALSE, error |-> error]]
                               ELSE [status |-> 200,
                                     body |-> [ok |-> TRUE,
                                               entries |-> MapSize(mc.data)]]]
    [] proc.kind = "cron" -> Free
    [] proc.kind = "caller" ->
         [proc EXCEPT !.pc = "done", !.resp = [status |-> 0, error |-> error]]
    [] OTHER -> [Free EXCEPT !.kind = "startup", !.pc = "done"]

\* A rejected promise nobody awaits ends the process (Node 20's default for
\* unhandled rejections): lines 405 and 412 call updateCache without await
\* or catch.
Unhandled(proc, error) ==
  error # "none" /\ proc.kind \in {"cron", "background"}

PhaseAfter(proc, error) ==
  IF Unhandled(proc, error) THEN "exited"
  ELSE IF proc.kind \in {"startup", "background"} THEN "listening"
  ELSE phase

\* The note a dropped lookup leaves with the refresh that is loading.
NoteDropped(ps, proc, status) ==
  IF proc.kind = "validate" /\ Loaders # {}
  THEN [ps EXCEPT ![CHOOSE q \in Loaders : TRUE].dropped = @ \cup {status}]
  ELSE ps

\* lines 174-194: a call of updateCache(force) by proc, up to its first
\* await or its early return; mc is memoryCache as the call finds it.
UpdateCache(p, caller, force, mc) ==
  LET proc == [caller EXCEPT !.force = force]
  IN
  IF TtlFresh(force, mc, now) \/ AlreadyLoading(mc)
  THEN /\ memoryCache' = mc
       /\ procs' = [NoteDropped(procs, proc, Resume(proc, "none", mc, now).resp.status)
                      EXCEPT ![p] = Resume(proc, "none", mc, now)]
       /\ phase' = PhaseAfter(proc, "none")
       /\ UNCHANGED <<file, config, now, started>>
  ELSE /\ started < MaxRefreshes
       /\ memoryCache' = BeginLoading(mc)
       /\ started' = started + 1
       /\ procs' = [procs EXCEPT ![p] =
                      [proc EXCEPT !.pc = "download", !.rid = started + 1,
                                   !.pre = [data |-> mc.data,
                                            lastUpdate |-> mc.lastUpdate,
                                            file |-> file]]]
       /\ phase' = IF proc.kind = "background" THEN "listening" ELSE phase
       /\ UNCHANGED <<file, config, now>>

\* What downloadAndParseXML returns for each document the upstream can serve.
Parsed == [doc \in AllDocuments |-> ParseProducers(doc)]

\* line 194: the download and the parse succeed; lines 197-198 install the
\* new map; line 202 starts mkdir.
DownloadOk(p, doc) ==
  /\ phase # "exited"
  /\ Quiet
  /\ procs[p].pc = "download"
  /\ LET newData == Parsed[doc]
     IN  /\ memoryCache' = Install(memoryCache, newData, now)
         /\ procs' = [procs EXCEPT ![p].pc = "mkdir", ![p].result = doc,
                                   ![p].newData = newData]
  /\ UNCHANGED <<file, config, now, phase, started>>

\* The error of the download logged inside updateCache and not rethrown.
DownloadFailSwallowed(p, e) ==
  /\ phase # "exited"
  /\ Quiet
  /\ procs[p].pc = "download"
  /\ memoryCache' = OnDownloadError(memoryCache)
  /\ procs' = [procs EXCEPT ![p] = Resume(procs[p], "none", memoryCache', now)]
  /\ phase' = PhaseAfter(procs[p], "none")
  /\ UNCHANGED <<file, config, now, started>>

\* lines 150-168 and 218-223: the download or the parse throws.
DownloadFail(p, e) ==
  /\ phase # "exited"
  /\ Quiet
  /\ procs[p].pc = "download"
  /\ memoryCache' = OnDownloadError(memoryCache)
  /\ procs' = [procs EXCEPT ![p] = Resume(procs[p], e, memoryCache', now)]
  /\ phase' = PhaseAfter(procs[p], e)
  /\ UNCHANGED <<file, config, now, started>>

\* lines 202-210: mkdir succeeded; cacheData is built and writeFile started.
MkdirOk(p) ==
  /\ phase # "exited"
  /\ Quiet
  /\ procs[p].pc = "mkdir"
  /\ procs' = [procs EXCEPT ![p].pc = "writeFile",
                            ![p].cacheData = CacheData(memoryCache, procs[p].newData)]
  /\ UNCHANGED <<memoryCache, file, config, now, phase, started>>

\* The end of a refresh after its install: lines 212-223.
EndRefresh(p, diskError) ==
  /\ memoryCache' = Finally(memoryCache)
  /\ procs' = [procs EXCEPT ![p] =
                  Resume(procs[p], DiskError(diskError), memoryCache', now)]
  /\ phase' = PhaseAfter(procs[p], DiskError(diskError))
  /\ UNCHANGED <<config, now, started>>

\* fs.mkdir fails.
MkdirFail(p) ==
  /\ phase # "exited"
  /\ Quiet
  /\ procs[p].pc = "mkdir"
  /\ EndRefresh(p, "EACCES")
  /\ UNCHANGED file

\* fs.writeFile succeeds: the file holds the string it was given.
WriteOk(p) ==
  /\ phase # "exited"
  /\ Quiet
  /\ procs[p].pc = "writeFile"
  /\ file' = procs[p].cacheData
  /\ EndRefresh(p, "none")

\* fs.writeFile fails: the file is as it was, or truncated.
WriteFail(p, truncated) ==
  /\ phase # "exited"
  /\ Quiet
  /\ procs[p].pc = "writeFile"
  /\ file' = IF truncated THEN Corrupt ELSE file
  /\ EndRefresh(p, "ENOSPC")

\* ---------------------------------------------------------------- startup
\* The loaded snapshot stamped with the time of the load.
LoadCacheFromDiskStampsNow(mc, f, readable) ==
  IF readable /\ f.kind = "json"
  THEN [loaded |-> TRUE,
        mc |-> [mc EXCEPT !.data = MapFrom(f.data), !.lastUpdate = now]]
  ELSE [loaded |-> FALSE, mc |-> mc]

\* lastUpdate assigned before the content is parsed: a file that is not
\* valid JSON leaves a timestamp without data.
LoadCacheFromDiskStampsFirst(mc, f, readable) ==
  IF readable /\ f.kind = "json"
  THEN [loaded |-> TRUE,
        mc |-> [mc EXCEPT !.data = MapFrom(f.data), !.lastUpdate = f.lastUpdate]]
  ELSE IF readable /\ f.kind = "corrupt"
  THEN [loaded |-> FALSE, mc |-> [mc EXCEPT !.lastUpdate = now]]
  ELSE [loaded |-> FALSE, mc |-> mc]

\* lines 229-243: readable is whether fs.readFile succeeds.
LoadCacheFromDisk(mc, f, readable) ==
  IF readable /\ f.kind = "json"
  THEN [loaded |-> TRUE,
        mc |-> [mc EXCEPT !.data = MapFrom(f.data), !.lastUpdate = f.lastUpdate]]
  ELSE [loaded |-> FALSE, mc |-> mc]

\* app.listen called before the cache file has been read: the server takes
\* requests while the read is pending.
StartupListensFirst(readable) ==
  /\ procs[Main].pc = "readFile"
  /\ IF phase = "boot"
     THEN /\ phase' = "listening"
          /\ UNCHANGED <<memoryCache, file, config, now, procs, started>>
     ELSE LET r == LoadCacheFromDisk(memoryCache, file, readable)
          IN  /\ memoryCache' = r.mc
              /\ procs' = [procs EXCEPT ![Main].pc = "done"]
              /\ UNCHANGED <<file, config, now, phase, started>>

\* lines 382-423: startServer from the answer of fs.readFile to its first
\* await, or to app.listen.
Startup(readable) ==
  /\ phase = "boot"
  /\ procs[Main].pc = "readFile"
  /\ LET r == LoadCacheFromDisk(memoryCache, file, readable)
     IN  IF ~r.loaded
         THEN UpdateCache(Main, procs[Main], TRUE, r.mc)
         ELSE IF (now - r.mc.lastUpdate) >= cache_ttl_hours
         THEN UpdateCache(Main, [procs[Main] EXCEPT !.kind = "background"],
                          FALSE, r.mc)
         ELSE /\ memoryCache' = r.mc
              /\ procs' = [procs EXCEPT ![Main].pc = "done"]
              /\ phase' = "listening"
              /\ UNCHANGED <<file, config, now, started>>

\* --------------------------------------------------------------- handlers
\* lines 268-292: GET /api/lucid/validate up to its answer or its await.
Validate(p, lucid) ==
  /\ phase = "listening"
  /\ Quiet
  /\ FreeSlot(p)
  /\ LET proc == [Free EXCEPT !.kind = "validate", !.lucid = lucid,
                              !.normalized = normalized(lucid)]
     IN  IF lucid = <<>>
         THEN /\ procs' = [procs EXCEPT ![p] =
                             [proc EXCEPT !.pc = "done",
                                          !.resp = [status |-> 400,
                                                    body |-> [ok |-> FALSE]]]]
              /\ UNCHANGED <<memoryCache, file, config, now, phase, started>>
         ELSE IF CacheEmpty(memoryCache)
         THEN UpdateCache(p, proc, TRUE, memoryCache)
         ELSE /\ procs' = [procs EXCEPT ![p] =
                             [proc EXCEPT !.pc = "done",
                                          !.resp = LookupResponse(memoryCache, lucid,
                                                                  proc.normalized,
                                                                  now)]]
              /\ UNCHANGED <<memoryCache, file, config, now, phase, started>>

\* x-api-key header or api_key query parameter; <<>> when neither is sent.
ProvidedKeys == {<<>>, <<"k">>, <<"x">>}

\* The key check applied only when a key is presented: a request without a
\* key passes.
AuthorizedWithoutKey(cfg, providedKey) ==
  cfg.internal_api_key = <<>> \/ providedKey = <<>>
    \/ providedKey = cfg.internal_api_key

\* lines 331-339
Authorized(cfg, providedKey) ==
  cfg.internal_api_key = <<>> \/ providedKey = cfg.internal_api_key

\* lines 329-354: POST /admin/refresh.
AdminRefresh(p, providedKey) ==
  /\ phase = "listening"
  /\ Quiet
  /\ FreeSlot(p)
  /\ LET proc == [Free EXCEPT !.kind = "refresh"]
     IN  IF ~Authorized(config, providedKey)
         THEN /\ procs' = [procs EXCEPT ![p] =
                             [proc EXCEPT !.pc = "done",
                                          !.resp = [status |-> 401,
                                                    body |-> [ok |-> FALSE]]]]
              /\ UNCHANGED <<memoryCache, file, config, now, phase, started>>
         ELSE UpdateCache(p, proc, TRUE, memoryCache)

\* lines 410-415: the daily callback; its updateCache(true) is not awaited.
Cron(p) ==
  /\ phase = "listening"
  /\ Quiet
  /\ FreeSlot(p)
  /\ UpdateCache(p, [Free EXCEPT !.kind = "cron"], TRUE, memoryCache)

\* lines 359-378: GET /api/stats.
Stats(p) ==
  /\ phase = "listening"
  /\ Quiet
  /\ FreeSlot(p)
  /\ procs' = [procs EXCEPT ![p] =
                 [Free EXCEPT !.kind = "stats", !.pc = "done",
                              !.resp = StatsResponse(memoryCache, config, now)]]
  /\ UNCHANGED <<memoryCache, file, config, now, phase, started>>

\* The response has been delivered; the slot serves the next request.
Release(p) ==
  /\ phase # "exited"
  /\ p # Main
  /\ procs[p].pc = "done"
  /\ procs' = [procs EXCEPT ![p] = Free]
  /\ UNCHANGED <<memoryCache, file, config, now, phase, started>>

\* The wall clock advances.
Tick ==
  /\ phase # "exited"
  /\ Quiet
  /\ now < MaxTime
  /\ now' = now + 1
  /\ UNCHANGED <<memoryCache, file, config, phase, procs, started>>

\* A caller that awaits updateCache(force) with either value of force, in
\* any state the service reaches: the driver of the function's contract.
Call(p, force) ==
  /\ phase = "listening"
  /\ Quiet
  /\ FreeSlot(p)
  /\ UpdateCache(p, [Free EXCEPT !.kind = "caller"], force, memoryCache)

Next ==
  \/ \E readable \in BOOLEAN : Startup(readable)
  \/ \E p \in ProcIds, lucid \in Queries : Validate(p, lucid)
  \/ \E p \in ProcIds, providedKey \in ProvidedKeys : AdminRefresh(p, providedKey)
  \/ \E p \in ProcIds : Cron(p)
  \/ \E p \in ProcIds : Stats(p)
  \/ \E p \in ProcIds, doc \in Documents : DownloadOk(p, doc)
  \/ \E p \in ProcIds, e \in FetchErrors : DownloadFail(p, e)
  \/ \E p \in ProcIds : MkdirOk(p)
  \/ \E p \in ProcIds : MkdirFail(p)
  \/ \E p \in ProcIds : WriteOk(p)
  \/ \E p \in ProcIds, truncated \in BOOLEAN : WriteFail(p, truncated)
  \/ \E p \in ProcIds : Release(p)
  \/ Tick

Spec == Init /\ [][Next]_vars

\* The service, and callers of updateCache with both values of force.
NextCalls ==
  \/ Next
  \/ \E p \in ProcIds, force \in BOOLEAN : Call(p, force)

SpecCalls == Init /\ [][NextCalls]_vars

\* The service with every document layout served and every spelling of a
\* query asked: the steps that apply downloadAndParseXML and the lookup.
NextParse ==
  \/ \E readable \in BOOLEAN : Startup(readable)
  \/ \E p \in ProcIds, lucid \in QueryVariants : Validate(p, lucid)
  \/ \E p \in ProcIds, doc \in AllDocuments : DownloadOk(p, doc)
  \/ \E p \in ProcIds : MkdirFail(p)
  \/ \E p \in ProcIds : Release(p)

SpecParse == Init /\ [][NextParse]_vars

\* One of the awaits of a loading updateCache call (lines 194, 202, 210) ends.
Completion ==
  /\ memoryCache.isLoading
  /\ Quiet
  /\ \E p \in Loaders :
       \/ /\ procs[p].pc = "download"
          /\ \/ \E doc \in Documents : DownloadOk(p, doc)
             \/ \E e \in FetchErrors : DownloadFail(p, e)
       \/ /\ procs[p].pc = "mkdir"
          /\ MkdirOk(p) \/ MkdirFail(p)
       \/ /\ procs[p].pc = "writeFile"
          /\ WriteOk(p) \/ \E truncated \in BOOLEAN : WriteFail(p, truncated)

\* Every started network or file operation completes or fails (axios has a
\* timeout of 300000 ms) however many requests arrive meanwhile, and a
\* response, once computed, is delivered.
Fairness ==
  /\ WF_vars(\E p \in ProcIds : procs[p].pc = "done" /\ Release(p))
  /\ SF_vars(Completion)

FairSpec == Spec /\ Fairness

\* ============================================ the "v4 - Stable" server
\* src/unnamed/part_001: the same cache with a 5 s pause in updateCache, an
\* /admin/refresh that answers at once, a guarded cron callback and the
\* endpoint /admin/test-load.  The specification holds the operations that
\* write the cache; its lookups call the same updateCache.

\* line 597: the age in hours above which startup schedules a refresh.
startup_max_age_hours == 48

\* line 615: the age in hours below which the cron callback does nothing.
cron_min_age_hours == 20

\* lines 433-435: the lock of /admin/test-load, 300000 ms.  The clock counts
\* hours: a call in a later hour than the last one is past the lock; within
\* is whether a call in the same hour comes less than 300000 ms after it.
TestLoadLocked(mc, t, within) == (t - mc.lastTestLoad) < 1 /\ within

\* lines 31-35, and lastTestLoad as line 433 reads it (undefined || 0).
InitV4 ==
  /\ memoryCache = [data |-> EmptyMap, lastUpdate |-> Null, isLoading |-> FALSE,
                    lastTestLoad |-> 0]
  /\ file \in InitialFiles
  /\ config \in {[internal_api_key |-> k, test_endpoints |-> e] :
                   k \in ApiKeys, e \in BOOLEAN}
  /\ now = 1
  /\ phase = "boot"
  /\ procs = [p \in ProcIds |->
                IF p = Main THEN [Free EXCEPT !.kind = "startup", !.pc = "readFile"]
                ELSE Free]
  /\ started = 0

\* The positions of a loading updateCache call: lines 215-251.
LoadingPcsV4 == {"delay", "download", "mkdir", "writeFile"}

\* The positions of a running test-load: lines 460-475.
TestLoadPcs == {"tl_download", "tl_writeFile"}

\* A background operation is over: nobody waits for it.
EndV4(p) == IF p = Main THEN [Free EXCEPT !.kind = "startup", !.pc = "done"] ELSE Free

\* lines 199-220: updateCache(force) up to its early return or to the pause.
UpdateCacheV4(p, proc, force, mc) ==
  IF TtlFresh(force, mc, now) \/ AlreadyLoading(mc)
  THEN /\ memoryCache' = mc
       /\ procs' = [procs EXCEPT ![p] = EndV4(p)]
       /\ UNCHANGED <<file, config, now, started>>
  ELSE /\ started < MaxRefreshes
       /\ memoryCache' = BeginLoading(mc)
       /\ started' = started + 1
       /\ procs' = [procs EXCEPT ![p] =
                      [proc EXCEPT !.pc = "delay", !.force = force]]
       /\ UNCHANGED <<file, config, now>>

\* lines 574-606 and 635: startServer; no refresh at startup unless the
\* loaded cache is older than 48 h (then a timer of 30 s is set).
StartupV4(readable) ==
  /\ phase = "boot"
  /\ procs[Main].pc = "readFile"
  /\ LET r == LoadCacheFromDisk(memoryCache, file, readable)
     IN  /\ memoryCache' = r.mc
         /\ procs' = [procs EXCEPT ![Main].pc =
                        IF r.loaded /\ (now - r.mc.lastUpdate) > startup_max_age_hours
                        THEN "timer" ELSE "done"]
  /\ phase' = "listening"
  /\ UNCHANGED <<file, config, now, started>>

\* lines 373-400: POST /admin/refresh answers, then starts updateCache(true).
AdminRefreshV4(p, providedKey) ==
  /\ phase = "listening"
  /\ Quiet
  /\ FreeSlot(p)
  /\ IF ~Authorized(config, providedKey)
     THEN /\ procs' = [procs EXCEPT ![p] =
                         [Free EXCEPT !.kind = "refresh", !.pc = "done",
                                      !.resp = [status |-> 401,
                                                body |-> [ok |-> FALSE]]]]
          /\ UNCHANGED <<memoryCache, file, config, now, started>>
     ELSE UpdateCacheV4(p, [Free EXCEPT !.kind = "refresh",
                                        !.resp = [status |-> 200,
                                                  body |-> [ok |-> TRUE,
                                                            currentEntries |->
                                                              MapSize(memoryCache.data)]]],
                        TRUE, memoryCache)
  /\ UNCHANGED phase

\* lines 608-630: the daily callback; it skips a cache younger than 20 h.
CronV4(p) ==
  /\ phase = "listening"
  /\ Quiet
  /\ FreeSlot(p)
  /\ IF /\ Truthy(memoryCache.lastUpdate)
        /\ (now - memoryCache.lastUpdate) < cron_min_age_hours
     THEN UNCHANGED <<memoryCache, file, config, now, procs, started>>
     ELSE UpdateCacheV4(p, [Free EXCEPT !.kind = "cron"], TRUE, memoryCache)
  /\ UNCHANGED phase

\* lines 220-223: the pause of 5 s is over, the download starts.
DelayDone(p) ==
  /\ Quiet
  /\ procs[p].pc = "delay"
  /\ procs' = [procs EXCEPT ![p].pc = "download"]
  /\ UNCHANGED <<memoryCache, file, config, now, phase, started>>

\* lines 223-231: the download and the parse succeed, the map is installed
\* and mkdir started.
DownloadOkV4(p, doc) ==
  /\ Quiet
  /\ procs[p].pc = "download"
  /\ LET newData == Parsed[doc]
     IN  /\ memoryCache' = Install(memoryCache, newData, now)
         /\ procs' = [procs EXCEPT ![p].pc = "mkdir", ![p].newData = newData]
  /\ UNCHANGED <<file, config, now, phase, started>>

\* lines 247-252: the download or the parse throws; every caller of the v4
\* server catches the error.
DownloadFailV4(p, e) ==
  /\ Quiet
  /\ procs[p].pc = "download"
  /\ memoryCache' = OnDownloadError(memoryCache)
  /\ procs' = [procs EXCEPT ![p] = EndV4(p)]
  /\ UNCHANGED <<file, config, now, phase, started>>

\* lines 231-239: mkdir succeeded; cacheData is built and writeFile started.
MkdirOkV4(p) ==
  /\ Quiet
  /\ procs[p].pc = "mkdir"
  /\ procs' = [procs EXCEPT ![p].pc = "writeFile",
                            ![p].cacheData = CacheData(memoryCache, procs[p].newData)]
  /\ UNCHANGED <<memoryCache, file, config, now, phase, started>>

\* lines 241-252: the end of a refresh after its install; the disk error is
\* logged.
EndRefreshV4(p) ==
  /\ memoryCache' = Finally(memoryCache)
  /\ procs' = [procs EXCEPT ![p] = EndV4(p)]
  /\ UNCHANGED <<config, now, phase, started>>

\* fs.mkdir fails (line 231).
MkdirFailV4(p) ==
  /\ Quiet
  /\ procs[p].pc = "mkdir"
  /\ EndRefreshV4(p)
  /\ UNCHANGED file

\* fs.writeFile succeeds (line 239).
WriteOkV4(p) ==
  /\ Quiet
  /\ procs[p].pc = "writeFile"
  /\ file' = procs[p].cacheData
  /\ EndRefreshV4(p)

\* fs.writeFile fails (line 239).
WriteFailV4(p, truncated) ==
  /\ Quiet
  /\ procs[p].pc = "writeFile"
  /\ file' = IF truncated THEN Corrupt ELSE file
  /\ EndRefreshV4(p)

\* lines 409-456: POST /admin/test-load up to its download; isLoading is
\* neither read nor written.
TestLoad(p, providedKey, within) ==
  /\ phase = "listening"
  /\ Quiet
  /\ FreeSlot(p)
  /\ LET proc == [Free EXCEPT !.kind = "test-load"]
         answer(status) == [proc EXCEPT !.pc = "done",
                                        !.resp = [status |-> status,
                                                  body |-> [ok |-> FALSE]]]
     IN  IF ~config.test_endpoints
         THEN /\ procs' = [procs EXCEPT ![p] = answer(404)]
              /\ UNCHANGED <<memoryCache, started>>
         ELSE IF ~Authorized(config, providedKey)
         THEN /\ procs' = [procs EXCEPT ![p] = answer(401)]
              /\ UNCHANGED <<memoryCache, started>>
         ELSE IF TestLoadLocked(memoryCache, now, within)
         THEN /\ procs' = [procs EXCEPT ![p] = answer(429)]
              /\ UNCHANGED <<memoryCache, started>>
         ELSE /\ started < MaxRefreshes
              /\ memoryCache' = [memoryCache EXCEPT !.lastTestLoad = now]
              /\ procs' = [procs EXCEPT ![p] =
                             [proc EXCEPT !.pc = "tl_download",
                                          !.resp = [status |-> 200,
                                                    body |-> [ok |-> TRUE]]]]
              /\ started' = started + 1
  /\ UNCHANGED <<file, config, now, phase>>

\* lines 460-475: the download of the test-load succeeds; the map is
\* installed, cacheData built and writeFile started.
TestLoadDownloadOk(p, doc) ==
  /\ Quiet
  /\ procs[p].pc = "tl_download"
  /\ LET newData == Parsed[doc]
     IN  /\ memoryCache' = Install(memoryCache, newData, now)
         /\ procs' = [procs EXCEPT ![p].pc = "tl_writeFile",
                                   ![p].newData = newData,
                                   ![p].cacheData = CacheData(memoryCache', newData)]
  /\ UNCHANGED <<file, config, now, phase, started>>

\* lines 460 and 479-484: the error of the download is logged.
TestLoadDownloadFail(p, e) ==
  /\ Quiet
  /\ procs[p].pc = "tl_download"
  /\ procs' = [procs EXCEPT ![p] = Free]
  /\ UNCHANGED <<memoryCache, file, config, now, phase, started>>

\* lines 476-477: fs.writeFile succeeds.
TestLoadWriteOk(p) ==
  /\ Quiet
  /\ procs[p].pc = "tl_writeFile"
  /\ file' = procs[p].cacheData
  /\ procs' = [procs EXCEPT ![p] = Free]
  /\ UNCHANGED <<memoryCache, config, now, phase, started>>

\* lines 476 and 479-484: writeFile fails; the file is as it was, or truncated.
TestLoadWriteFail(p, truncated) ==
  /\ Quiet
  /\ procs[p].pc = "tl_writeFile"
  /\ file' = IF truncated THEN Corrupt ELSE file
  /\ procs' = [procs EXCEPT ![p] = Free]
  /\ UNCHANGED <<memoryCache, config, now, phase, started>>

NextV4 ==
  \/ \E readable \in BOOLEAN : StartupV4(readable)
  \/ \E p \in ProcIds, providedKey \in ProvidedKeys : AdminRefreshV4(p, providedKey)
  \/ \E p \in ProcIds : CronV4(p)
  \/ \E p \in ProcIds, providedKey \in ProvidedKeys, within \in BOOLEAN :
       TestLoad(p, providedKey, within)
  \/ \E p \in ProcIds : DelayDone(p)
  \/ \E p \in ProcIds, doc \in Documents : DownloadOkV4(p, doc)
  \/ \E p \in ProcIds, e \in FetchErrors : DownloadFailV4(p, e)
  \/ \E p \in ProcIds : MkdirOkV4(p)
  \/ \E p \in ProcIds : MkdirFailV4(p)
  \/ \E p \in ProcIds : WriteOkV4(p)
  \/ \E p \in ProcIds, truncated \in BOOLEAN : WriteFailV4(p, truncated)
  \/ \E p \in ProcIds, doc \in Documents : TestLoadDownloadOk(p, doc)
  \/ \E p \in ProcIds, e \in FetchErrors : TestLoadDownloadFail(p, e)
  \/ \E p \in ProcIds : TestLoadWriteOk(p)
  \/ \E p \in ProcIds, truncated \in BOOLEAN : TestLoadWriteFail(p, truncated)
  \/ \E p \in ProcIds : Release(p)
  \/ Tick

SpecV4 == InitV4 /\ [][NextV4]_vars

\* ================================================================ claims
FetchesInFlight == {p \in ProcIds : procs[p].pc = "download"}

\* A step in which a handler calls updateCache(true).
ForcedCallBy(p) ==
  \/ Cron(p)
  \/ \E k \in ProvidedKeys :
       (config.internal_api_key = <<>> \/ k = config.internal_api_key)
       /\ AdminRefresh(p, k)
  \/ \E l \in Queries \ {<<>>} : MapSize(memoryCache.data) = 0 /\ Validate(p, l)

\* C1: at most one fetch started by updateCache is in flight in any state, and
\* a call of updateCache that finds isLoading = true starts no fetch, leaves
\* the snapshot, lastUpdate, isLoading and the file as they are, and raises
\* no error to its caller.
C1_Exclusivity ==
  /\ [](Cardinality(FetchesInFlight) <= 1)
  /\ [][\A p \in ProcIds :
          (memoryCache.isLoading /\ ForcedCallBy(p)) =>
            /\ memoryCache' = memoryCache
            /\ FetchesInFlight' = FetchesInFlight
            /\ started' = started
            /\ file' = file
            /\ phase' = phase
            /\ procs'[p].pc # "download"
            /\ procs'[p].resp.status \notin {500, 503}]_vars

\* A forced refresh request was dropped while another refresh was fetching.
C1_Witness ==
  \E p, q \in ProcIds :
    /\ procs[p].kind = "refresh" /\ procs[p].pc = "done"
    /\ procs[p].rid = 0 /\ procs[p].resp.status = 200
    /\ procs[q].pc = "download" /\ procs[q].kind = "validate"
    /\ memoryCache.isLoading

\* C2: when the download or the parse of a refresh fails, data and lastUpdate
\* are what they were when the refresh began, the file has not been written
\* since then, and /api/stats reports the previous entry count and the
\* previous lastUpdate.
C2_FailedRefreshKeepsSnapshot ==
  [][\A p \in ProcIds, e \in FetchErrors :
       DownloadFail(p, e) =>
         /\ memoryCache'.data = procs[p].pre.data
         /\ memoryCache'.lastUpdate = procs[p].pre.lastUpdate
         /\ file' = procs[p].pre.file
         /\ StatsResponse(memoryCache', config', now').body.entries
              = MapSize(procs[p].pre.data)
         /\ StatsResponse(memoryCache', config', now').body.lastUpdate
              = procs[p].pre.lastUpdate]_vars

\* A forced refresh over a non-empty snapshot was answered 429 upstream.
C2_Witness ==
  \E p \in ProcIds :
    /\ procs[p].kind = "refresh" /\ procs[p].pc = "done" /\ procs[p].rid > 0
    /\ procs[p].resp.status = 500 /\ procs[p].resp.body.error = "429"
    /\ MapSize(procs[p].pre.data) > 0
    /\ memoryCache.data = procs[p].pre.data
    /\ Truthy(memoryCache.lastUpdate)

\* The maps a complete parse of some upstream document yields.
CompleteTables == {ParseProducers(doc) : doc \in Documents} \cup {EmptyMap}

\* C3: memoryCache.data is always the complete table of one document, and
\* when data or lastUpdate changes, both change in the same step: to the
\* privately built map of the refresh whose download just ended and to the
\* time of that step (or, at startup, to the file's table and time).
C3_AtomicSwap ==
  /\ [](/\ memoryCache.data \in CompleteTables
        /\ (memoryCache.lastUpdate = Null => memoryCache.data = EmptyMap))
  /\ [][(\/ memoryCache'.data # memoryCache.data
         \/ memoryCache'.lastUpdate # memoryCache.lastUpdate) =>
          \/ \E p \in ProcIds :
               /\ procs[p].pc = "download" /\ procs'[p].pc = "mkdir"
               /\ procs'[p].newData = BuildMap(FindProducers(procs'[p].result))
               /\ memoryCache'.data = procs'[p].newData
               /\ memoryCache'.lastUpdate = now'
          \/ /\ phase = "boot" /\ procs[Main].pc = "readFile"
             /\ file.kind = "json"
             /\ memoryCache'.data = MapFrom(file.data)
             /\ memoryCache'.lastUpdate = file.lastUpdate]_vars

\* A refresh has just replaced a non-empty snapshot by a different one.
C3_Witness ==
  \E p \in ProcIds :
    /\ procs[p].pc = "mkdir"
    /\ MapSize(procs[p].pre.data) > 0 /\ MapSize(procs[p].newData) > 0
    /\ procs[p].newData # procs[p].pre.data
    /\ memoryCache.data = procs[p].newData
    /\ memoryCache.lastUpdate = now /\ memoryCache.lastUpdate # procs[p].pre.lastUpdate

\* C4: a lookup (a request with a key) against a non-empty store is answered
\* in the step it arrives in, with registered or not_found read from the
\* current snapshot, also while a refresh is loading; it starts no fetch and
\* changes nothing.
C4_WarmLookup ==
  [][\A p \in ProcIds, l \in Queries \ {<<>>} :
       (MapSize(memoryCache.data) > 0 /\ Validate(p, l)) =>
         /\ procs'[p].pc = "done"
         /\ procs'[p].resp.status = 200
         /\ procs'[p].resp.body.registered
              = (\E i \in 1..Len(memoryCache.data) :
                   memoryCache.data[i][1] = toUpperCase(trim(l)))
         /\ procs'[p].resp.body.status
              = (IF procs'[p].resp.body.registered THEN "registered" ELSE "not_found")
         /\ procs'[p].rid = 0
         /\ FetchesInFlight' = FetchesInFlight
         /\ UNCHANGED <<memoryCache, file, started, phase>>]_vars

\* A lookup was answered from a non-empty store while a refresh was loading.
C4_Witness ==
  \E p, q \in ProcIds :
    /\ procs[p].kind = "validate" /\ procs[p].pc = "done"
    /\ procs[p].resp.status = 200 /\ procs[p].resp.body.registered
    /\ MapSize(memoryCache.data) > 0
    /\ memoryCache.isLoading /\ procs[q].pc = "download"

\* The entries of a document whose registration number has the key of l.
Matches(entries, l) ==
  {i \in 1..Len(entries) :
     /\ RegNum(entries[i]) # <<>>
     /\ toUpperCase(trim(RegNum(entries[i]))) = toUpperCase(trim(l))}

\* C5: a lookup that finds the store empty and no refresh loading starts a
\* forced refresh and is suspended; when that refresh has ended with a
\* document fetched, the lookup is answered 200 from the snapshot the refresh
\* installed: registered, with the company name of the (last) entry of the
\* document whose trimmed, upper-cased registration number equals the
\* trimmed, upper-cased query, and not_found when there is no such entry.
C5_LazyRefresh ==
  /\ [](\A p \in ProcIds :
          (/\ procs[p].kind = "validate" /\ procs[p].pc = "done"
           /\ procs[p].rid > 0 /\ procs[p].resp.status # 503) =>
            LET entries == FindProducers(procs[p].result)
                m == Matches(entries, procs[p].lucid)
            IN  /\ ~memoryCache.isLoading
                /\ memoryCache.data = procs[p].newData
                /\ procs[p].resp.status = 200
                /\ procs[p].resp.body.registered = (m # {})
                /\ m # {} =>
                     procs[p].resp.body.company
                       = CompanyName(entries[CHOOSE i \in m : \A j \in m : j <= i]))
  /\ [][\A p \in ProcIds, l \in Queries \ {<<>>} :
          (/\ MapSize(memoryCache.data) = 0 /\ ~memoryCache.isLoading
           /\ Validate(p, l)) =>
            /\ procs'[p].pc = "download" /\ procs'[p].force
            /\ procs'[p].resp = NoResp
            /\ memoryCache'.isLoading]_vars

\* The lazy lookup " De1 " was answered registered with the company of the
\* last of the two entries that share the key DE1.
C5_Witness ==
  \E p \in ProcIds :
    /\ procs[p].kind = "validate" /\ procs[p].pc = "done" /\ procs[p].rid > 0
    /\ procs[p].lucid = Txt2 /\ procs[p].result = DocList
    /\ procs[p].resp.status = 200 /\ procs[p].resp.body.registered
    /\ procs[p].resp.body.company = <<"Y">>

\* C6: when the first refresh, started lazily by a lookup, fails, that lookup
\* and every lookup that arrived while the refresh was in progress are
\* answered 503.
C6_AllLookupsUnavailable ==
  \A p \in ProcIds :
    (/\ procs[p].kind = "validate" /\ procs[p].pc = "done" /\ procs[p].rid > 0
     /\ procs[p].pre.lastUpdate = Null
     /\ procs[p].result = NoDoc) =>
      /\ procs[p].resp.status = 503
      /\ \A status \in procs[p].dropped : status = 503

\* C7: updateCache(false) changes nothing and starts no fetch when the
\* snapshot is younger than cache_ttl_hours; when it is at least that old (or
\* there is none) and no refresh is loading, the call enters Loading and
\* starts the fetch.
C7_TtlGate ==
  [][\A p \in ProcIds :
       Call(p, FALSE) =>
         IF /\ memoryCache.lastUpdate # Null
            /\ now - memoryCache.lastUpdate < cache_ttl_hours
         THEN /\ memoryCache' = memoryCache
              /\ FetchesInFlight' = FetchesInFlight
              /\ started' = started
              /\ file' = file
              /\ procs'[p].pc = "done" /\ procs'[p].rid = 0
         ELSE ~memoryCache.isLoading =>
                /\ memoryCache' = [memoryCache EXCEPT !.isLoading = TRUE]
                /\ procs'[p].pc = "download"
                /\ started' = started + 1]_vars

\* A non-forced call on a fresh snapshot returned without loading.
C7_Witness ==
  \E p \in ProcIds :
    /\ procs[p].kind = "caller" /\ procs[p].pc = "done" /\ ~procs[p].force
    /\ procs[p].rid = 0
    /\ ~memoryCache.isLoading
    /\ memoryCache.lastUpdate # Null
    /\ now - memoryCache.lastUpdate < cache_ttl_hours
    /\ now - memoryCache.lastUpdate = cache_ttl_hours - 1

\* C8: isLoading is true exactly while some updateCache call is between
\* line 190 and its finally block, and every refresh that enters Loading
\* returns to Idle, given that the download and the file operations end.
C8_FlagLifecycle ==
  /\ [](memoryCache.isLoading <=>
          \E p \in ProcIds : procs[p].pc \in {"download", "mkdir", "writeFile"})
  /\ (memoryCache.isLoading ~> ~memoryCache.isLoading)

\* A refresh that failed in the download has cleared the flag.
C8_Witness ==
  \E p \in ProcIds :
    /\ procs[p].pc = "done" /\ procs[p].rid > 0
    /\ procs[p].resp.status \in {500, 503}
    /\ ~memoryCache.isLoading

\* C9: when mkdir or writeFile fails after the install, the installed data
\* and lastUpdate stay, isLoading is cleared, and the caller of the refresh
\* sees a success (200 for a request; no rejection for the others).
C9_DiskFailureNotFatal ==
  [][\A p \in ProcIds :
       (MkdirFail(p) \/ \E truncated \in BOOLEAN : WriteFail(p, truncated)) =>
         /\ memoryCache'.data = procs[p].newData
         /\ memoryCache'.data = memoryCache.data
         /\ memoryCache'.lastUpdate = memoryCache.lastUpdate
         /\ ~memoryCache'.isLoading
         /\ procs[p].kind \in {"validate", "refresh"} =>
              /\ procs'[p].pc = "done"
              /\ procs'[p].resp.status = 200
         /\ procs[p].kind = "validate" =>
              procs'[p].resp = LookupResponse(memoryCache', procs[p].lucid,
                                              toUpperCase(trim(procs[p].lucid)),
                                              now)
         /\ procs[p].kind = "refresh" =>
              procs'[p].resp.body.entries = MapSize(procs[p].newData)
         /\ phase' # "exited"]_vars

\* A forced refresh installed a non-empty snapshot, mkdir failed, and the
\* request was answered 200 with nothing written.
C9_Witness ==
  \E p \in ProcIds :
    /\ procs[p].kind = "refresh" /\ procs[p].pc = "done" /\ procs[p].rid > 0
    /\ procs[p].resp.status = 200
    /\ procs[p].cacheData = NoFile
    /\ MapSize(procs[p].newData) > 0
    /\ memoryCache.data = procs[p].newData
    /\ file = procs[p].pre.file /\ file = NoFile
    /\ ~memoryCache.isLoading

\* C10: the image handed to writeFile is the whole installed snapshot
\* {lastUpdate, count, data} with count the number of entries; the file only
\* changes to such an image (or is truncated by a failing write), and a
\* refresh that fails in the download leaves the file alone.
C10_FileWrittenWholesale ==
  /\ [](\A p \in ProcIds :
          /\ procs[p].pc \in {"mkdir", "writeFile"} =>
               memoryCache.data = procs[p].newData
          /\ procs[p].pc = "writeFile" =>
               procs[p].cacheData =
                 [kind |-> "json", lastUpdate |-> memoryCache.lastUpdate,
                  count |-> Len(memoryCache.data), data |-> memoryCache.data])
  /\ [][/\ file' # file =>
             \E p \in ProcIds :
               /\ procs[p].pc = "writeFile"
               /\ \/ file' = Corrupt
                  \/ file' = [kind |-> "json",
                              lastUpdate |-> memoryCache.lastUpdate,
                              count |-> Len(memoryCache.data),
                              data |-> memoryCache.data]
        /\ \A p \in ProcIds, e \in FetchErrors :
             DownloadFail(p, e) => file' = file]_vars

\* A refresh wrote the image of a two-entry snapshot over an older file.
C10_Witness ==
  \E p \in ProcIds :
    /\ procs[p].pc = "done" /\ procs[p].rid > 0
    /\ procs[p].cacheData.kind = "json"
    /\ file = procs[p].cacheData
    /\ file.count = 2 /\ Len(file.data) = 2
    /\ file.lastUpdate = memoryCache.lastUpdate
    /\ procs[p].pre.file.kind = "json" /\ procs[p].pre.file # file

\* Two stores hold the same keys with the same record under each key.
SameTable(a, b) ==
  /\ MapKeys(a) = MapKeys(b)
  /\ \A k \in MapKeys(a) : MapGet(a, k) = MapGet(b, k)

\* C11: the file a refresh has saved, read back by loadCacheFromDisk into a
\* fresh process, gives a store with the keys, the records and the lastUpdate
\* of the snapshot that refresh installed; and startServer, having loaded a
\* file, holds the file's table and lastUpdate and measures the age for its
\* TTL test from that lastUpdate.
C11_PersistenceRoundTrip ==
  [][/\ \A p \in ProcIds :
          WriteOk(p) =>
            LET r == LoadCacheFromDisk(
                       [data |-> EmptyMap, lastUpdate |-> Null, isLoading |-> FALSE],
                       file', TRUE)
            IN  /\ r.loaded
                /\ SameTable(r.mc.data, memoryCache.data)
                /\ MapSize(r.mc.data) = MapSize(memoryCache.data)
                /\ r.mc.lastUpdate = memoryCache.lastUpdate
     /\ (Startup(TRUE) /\ file.kind = "json") =>
          /\ MapKeys(memoryCache'.data) = {file.data[i][1] : i \in 1..Len(file.data)}
          /\ \A i \in 1..Len(file.data) :
               MapGet(memoryCache'.data, file.data[i][1]) = file.data[i][2]
          /\ memoryCache'.lastUpdate = file.lastUpdate
          /\ memoryCache'.isLoading <=> (now - file.lastUpdate >= cache_ttl_hours)]_vars

\* A refresh saved a two-entry snapshot that is already one hour old when the
\* write ends; the file read back gives that snapshot with its lastUpdate.
C11_Witness ==
  \E p \in ProcIds :
    /\ procs[p].pc = "done" /\ procs[p].rid > 0
    /\ file.kind = "json" /\ file = procs[p].cacheData
    /\ MapSize(memoryCache.data) = 2
    /\ now - memoryCache.lastUpdate = 1
    /\ LoadCacheFromDisk(memoryCache, file, TRUE).mc
         = [memoryCache EXCEPT !.lastUpdate = now - 1]
    /\ SameTable(MapFrom(file.data), Parsed[DocList])

\* C12: a lookup is answered registered with record r exactly when the
\* snapshot holds r under the trimmed, upper-cased query, and not_found with
\* company null otherwise; the answer is the one any query that differs from
\* it only in letter case or surrounding white space determines.
C12_KeyNormalization ==
  \A p \in ProcIds :
    (/\ procs[p].kind = "validate" /\ procs[p].pc = "done"
     /\ procs[p].resp.status = 200) =>
      \A q \in QueryVariants :
        toUpperCase(trim(q)) = toUpperCase(trim(procs[p].lucid)) =>
          LET key == trim(toUpperCase(q))
              at == {i \in 1..Len(memoryCache.data) : memoryCache.data[i][1] = key}
              body == procs[p].resp.body
          IN  /\ Cardinality(at) <= 1
              /\ body.registered = (at # {})
              /\ \A i \in at :
                   /\ body.status = "registered"
                   /\ body.details = memoryCache.data[i][2]
                   /\ body.company = memoryCache.data[i][2].company_name
              /\ at = {} => /\ body.status = "not_found"
                            /\ body.company = Null
                            /\ body.details = Null

\* The query "<tab>de1" was answered with the record stored under DE1, and
\* the query "DE 1" on the same snapshot would not be.
C12_Witness ==
  \E p \in ProcIds :
    /\ procs[p].kind = "validate" /\ procs[p].pc = "done"
    /\ procs[p].lucid = <<"\t","d","e","1">>
    /\ procs[p].resp.status = 200
    /\ procs[p].resp.body.registered
    /\ procs[p].resp.body.company = <<"Y">>
    /\ procs[p].resp.body.details.registration_number = Txt2
    /\ MapKeys(memoryCache.data) = {<<"D","E","1">>, <<"D","E","2">>}

\* C13: an authorized POST /admin/refresh is answered in the step in which it
\* arrives, before the refresh it triggers has finished, and its response
\* carries the entry count of the snapshot that was current at request time.
C13_AsyncAdminRefresh ==
  \A p \in ProcIds :
    procs[p].kind = "refresh" =>
      /\ procs[p].pc \notin LoadingPcs
      /\ (procs[p].pc = "done" /\ procs[p].rid > 0 /\ procs[p].resp.status = 200) =>
           procs[p].resp.body.entries = MapSize(procs[p].pre.data)

\* C14: when the refresh started by POST /admin/refresh or by a lookup on an
\* empty store fails in the fetch or the parse, the request is answered with
\* an error status (500 with the error for the forced trigger, 503 for the
\* lazy one).
C14_FailureReportedToCaller ==
  [][\A p \in ProcIds, e \in FetchErrors :
       (DownloadFail(p, e) /\ procs[p].kind \in {"refresh", "validate"}) =>
         /\ procs'[p].pc = "done"
         /\ procs'[p].resp.body.ok = FALSE
         /\ procs[p].kind = "refresh" =>
              /\ procs'[p].resp.status = 500
              /\ procs'[p].resp.body.error = e
         /\ procs[p].kind = "validate" => procs'[p].resp.status = 503]_vars

\* An admin refresh whose download was answered 429 has been answered 500
\* with that error, while the older snapshot is still in place.
C14_Witness ==
  \E p \in ProcIds :
    /\ procs[p].kind = "refresh" /\ procs[p].pc = "done" /\ procs[p].rid > 0
    /\ procs[p].resp.status = 500
    /\ procs[p].resp.body.error = "429"
    /\ procs[p].result = NoDoc
    /\ MapSize(memoryCache.data) > 0

\* C15: the scheduled trigger starts no fetch and changes nothing when the
\* snapshot is younger than cache_ttl_hours.
C15_CronNonForced ==
  [][\A p \in ProcIds :
       (/\ Cron(p)
        /\ memoryCache.lastUpdate # Null
        /\ now - memoryCache.lastUpdate < cache_ttl_hours) =>
         /\ memoryCache' = memoryCache
         /\ started' = started
         /\ procs'[p].pc # "download"]_vars

\* C16: a fetch or parse failure of the scheduled refresh leaves the process
\* running with the previous snapshot.
C16_CronFailureOnlyLogged ==
  [][\A p \in ProcIds, e \in FetchErrors :
       (DownloadFail(p, e) /\ procs[p].kind = "cron") =>
         /\ phase' = "listening"
         /\ memoryCache'.data = memoryCache.data
         /\ memoryCache'.lastUpdate = memoryCache.lastUpdate]_vars

\* C17: once a document that matched no container path has been installed
\* as an empty table, every lookup made while that table is the store is
\* answered 200 not_found.
C17_SchemaDriftNotFound ==
  \A p \in ProcIds :
    (/\ procs[p].kind = "validate" /\ procs[p].pc = "done"
     /\ procs[p].lucid # <<>>
     /\ procs[p].rid > 0
     /\ procs[p].pre.lastUpdate # Null /\ procs[p].pre.data = EmptyMap
     /\ memoryCache.data = EmptyMap) =>
      /\ procs[p].resp.status = 200
      /\ ~procs[p].resp.body.registered

\* The entries of a document that uses exactly one of the four layouts.
OneLayout(doc) == Cardinality(DOMAIN doc \cap Layouts) = 1

EntriesOf(doc) == doc[CHOOSE path \in DOMAIN doc \cap Layouts : TRUE].items

\* The first non-empty value among the named children of an entry, or ''.
FirstNonEmpty(entry, names) ==
  LET ok == {i \in 1..Len(names) :
               names[i] \in DOMAIN entry /\ entry[names[i]] # <<>>}
  IN  IF ok = {} THEN <<>>
      ELSE entry[names[CHOOSE i \in ok : \A j \in ok : i <= j]]

RegAliases ==
  <<"RegistrationNumber", "registrationNumber", "registration_number", "RegNr">>

\* C18: the table built from a document that holds its entries under one of
\* the four container paths is the table built from the same entries under
\* any other of the four paths, and one entry as the only child gives the
\* table of the same entry in a list.
C18_SchemaTolerance ==
  \A p \in ProcIds :
    (procs[p].pc = "mkdir" /\ OneLayout(procs[p].result)) =>
      LET doc == procs[p].result
          container == doc[CHOOSE path \in DOMAIN doc \cap Layouts : TRUE]
      IN  /\ memoryCache.data = procs[p].newData
          /\ \A path \in Layouts :
               /\ ParseProducers(InLayout(path, container.isArray, container.items))
                    = procs[p].newData
               /\ Len(container.items) = 1 =>
                    ParseProducers(InLayout(path, ~container.isArray,
                                            container.items))
                      = procs[p].newData
          /\ Len(container.items) > 0 /\ (\E i \in 1..Len(container.items) :
                FirstNonEmpty(container.items[i], RegAliases) # <<>>)
               => procs[p].newData # EmptyMap

\* The four-entry list under RegisterExcerpt.Producer gave the two-key table.
C18_Witness ==
  \E p \in ProcIds :
    /\ procs[p].pc = "mkdir"
    /\ procs[p].result
         = InLayout("RegisterExcerpt.Producer", TRUE, DocList["Producers.Producer"].items)
    /\ procs[p].newData = Parsed[DocList]
    /\ MapSize(procs[p].newData) = 2

\* C19: the built table has no two keys with the same normalized form, and
\* for every key the record is the one of the last entry of the document
\* whose registration number has that normalized form.
C19_KeyCollision ==
  \A p \in ProcIds :
    (procs[p].pc = "mkdir" /\ OneLayout(procs[p].result)) =>
      LET entries == EntriesOf(procs[p].result)
          table == procs[p].newData
          KeyOf(i) == toUpperCase(trim(FirstNonEmpty(entries[i], RegAliases)))
          kept == {i \in 1..Len(entries) :
                     FirstNonEmpty(entries[i], RegAliases) # <<>>}
      IN  /\ \A i, j \in 1..Len(table) :
               toUpperCase(trim(table[i][1])) = toUpperCase(trim(table[j][1]))
                 => i = j
          /\ \A i \in kept :
               LET same == {j \in kept : KeyOf(j) = KeyOf(i)}
                   last == CHOOSE j \in same : \A k \in same : k <= j
                   at == {n \in 1..Len(table) : table[n][1] = KeyOf(i)}
               IN  /\ Cardinality(at) = 1
                   /\ \A n \in at : table[n][2] = Record(entries[last])

\* Two entries with the numbers "DE1" and " De1 " gave one entry under DE1,
\* with the record of the second.
C19_Witness ==
  \E p \in ProcIds :
    /\ procs[p].pc = "mkdir"
    /\ procs[p].result = DocList
    /\ Cardinality({i \in 1..Len(procs[p].newData) :
                      procs[p].newData[i][1] = <<"D","E","1">>}) = 1
    /\ MapGet(procs[p].newData, <<"D","E","1">>).registration_number = Txt2
    /\ MapGet(procs[p].newData, <<"D","E","1">>).company_name = <<"Y">>
    /\ FirstNonEmpty(DocList["Producers.Producer"].items[1], RegAliases)
         = <<"D","E","1">>

\* C20: every field of a record is the first non-empty value of its alias
\* list (or ''), the registration number over RegistrationNumber,
\* registrationNumber, registration_number, RegNr in that order, and exactly
\* the entries with a non-empty registration number produce a table entry.
C20_FieldAliases ==
  \A p \in ProcIds :
    (procs[p].pc = "mkdir" /\ OneLayout(procs[p].result)) =>
      LET entries == EntriesOf(procs[p].result)
          table == procs[p].newData
          KeyOf(i) == toUpperCase(trim(FirstNonEmpty(entries[i], RegAliases)))
          kept == {i \in 1..Len(entries) :
                     FirstNonEmpty(entries[i], RegAliases) # <<>>}
          Expected(e) ==
            [registration_number |-> FirstNonEmpty(e, RegAliases),
             company_name |->
               FirstNonEmpty(e, <<"ProducerName", "Name", "CompanyName", "name">>),
             vat_number |-> FirstNonEmpty(e, <<"VATNumber", "UstIdNr", "vat_number">>),
             tax_number |->
               FirstNonEmpty(e, <<"TaxNumber", "Steuernummer", "tax_number">>),
             address |-> FirstNonEmpty(e, <<"Address", "address">>),
             city |-> FirstNonEmpty(e, <<"City", "city">>),
             postal_code |-> FirstNonEmpty(e, <<"PostalCode", "postal_code">>)]
      IN  /\ {table[n][1] : n \in 1..Len(table)} = {KeyOf(i) : i \in kept}
          /\ Len(table) <= Cardinality(kept)
          /\ \A i \in kept :
               (\A j \in kept : KeyOf(j) = KeyOf(i) => j <= i) =>
                 \E n \in 1..Len(table) :
                   table[n] = <<KeyOf(i), Expected(entries[i])>>

\* The three alias entries gave the keys DE3 and DE6 (not DE4 or DE5), the
\* second-choice aliases filled in, and the entry without a number dropped.
C20_Witness ==
  \E p \in ProcIds :
    /\ procs[p].pc = "mkdir"
    /\ procs[p].result = DocAliases
    /\ Len(procs[p].newData) = 2
    /\ procs[p].newData[1][1] = <<"D","E","3">>
    /\ procs[p].newData[1][2].company_name = <<"N">>
    /\ procs[p].newData[1][2].vat_number = <<"U">>
    /\ procs[p].newData[1][2].address = <<"a">>
    /\ procs[p].newData[1][2].city = <<"C">>
    /\ procs[p].newData[2][1] = <<"D","E","6">>
    /\ procs[p].newData[2][2].company_name = <<"P">>
    /\ procs[p].newData[2][2].postal_code = <<"8">>

\* The operations of the v4 server that are between their first await and
\* their end.
RefreshesInProgress == {p \in ProcIds : procs[p].pc \in LoadingPcsV4}

TestLoadsInProgress == {p \in ProcIds : procs[p].pc \in TestLoadPcs}

\* C21: after startup the snapshot (memoryCache.data and
\* memoryCache.lastUpdate) never changes while isLoading is false, whatever
\* endpoint is called, /admin/test-load included: every install is made by
\* the refresh that holds isLoading = true.
C21_WritesUnderLoading ==
  [][(phase = "listening" /\ ~memoryCache.isLoading)
       => /\ memoryCache'.data = memoryCache.data
          /\ memoryCache'.lastUpdate = memoryCache.lastUpdate]_vars

\* C27: disk and memory agree at rest: a successful write of the cache file
\* after which no refresh and no test-load is in progress leaves the file's
\* lastUpdate and data equal to memoryCache.lastUpdate and memoryCache.data.
C27_DiskMatchesMemoryAtRest ==
  [][(/\ \E p \in ProcIds : WriteOkV4(p) \/ TestLoadWriteOk(p)
      /\ RefreshesInProgress' = {}
      /\ TestLoadsInProgress' = {})
       => /\ file'.lastUpdate = memoryCache'.lastUpdate
          /\ MapFrom(file'.data) = memoryCache'.data]_vars

\* C22: once a refresh has completed successfully (its install made, zero
\* records included, and the flag cleared again), no later lookup starts a
\* refresh or waits for one.
C22_LookupSuspendsOnlyBeforeFirstLoad ==
  [][(/\ phase = "listening"
      /\ Truthy(memoryCache.lastUpdate)
      /\ ~memoryCache.isLoading)
       => ~\E p \in ProcIds, lucid \in Queries :
              /\ Validate(p, lucid)
              /\ procs'[p].pc \in LoadingPcs]_vars

\* C23: the cache file is read once per run: the read of loadCacheFromDisk
\* is pending only during startup, before the server listens and before any
\* handler has run, and once it has ended no request, scheduled trigger or
\* refresh reads the file again.
C23_DiskReadOnceAtStartup ==
  /\ [](\A p \in ProcIds :
          procs[p].pc = "readFile" =>
            /\ p = Main
            /\ phase = "boot"
            /\ \A q \in ProcIds \ {Main} : procs[q].pc = "free")
  /\ [][procs[Main].pc # "readFile" => procs'[Main].pc # "readFile"]_vars

C23_Witness ==
  /\ phase = "listening"
  /\ procs[Main].pc = "done"
  /\ memoryCache.lastUpdate = 1
  /\ \E p \in ProcIds \ {Main} : procs[p].pc \in LoadingPcs
  /\ \E p \in ProcIds \ {Main} : procs[p].kind = "validate" /\ procs[p].pc = "done"

\* C24: loadCacheFromDisk is all-or-nothing and never raises: when the file
\* is missing, unreadable or not valid JSON it returns false (startServer goes
\* on to its forced refresh) and memoryCache.data and memoryCache.lastUpdate are
\* unchanged (empty store, null); when it returns true both were taken from
\* the file.
C24_LoadAllOrNothing ==
  [][(procs[Main].pc = "readFile" /\ procs'[Main].pc # "readFile") =>
       LET returnedFalse == /\ procs'[Main].kind = "startup"
                            /\ procs'[Main].pc = "download"
                            /\ procs'[Main].force
       IN  /\ phase' # "exited"
           /\ file.kind # "json" => returnedFalse
           /\ returnedFalse =>
                /\ memoryCache'.data = EmptyMap
                /\ memoryCache'.lastUpdate = Null
           /\ ~returnedFalse =>
                /\ file.kind = "json"
                /\ memoryCache'.data = MapFrom(file.data)
                /\ memoryCache'.lastUpdate = file.lastUpdate]_vars

C24_Witness ==
  /\ phase = "boot"
  /\ procs[Main].kind = "startup"
  /\ procs[Main].pc = "download"
  /\ file.kind = "corrupt"
  /\ memoryCache.data = EmptyMap
  /\ memoryCache.lastUpdate = Null

\* C25: a forced trigger ignores the TTL guard: updateCache(true) called while
\* isLoading is false enters Loading and starts a fetch whatever the age of
\* the snapshot, also right after a successful refresh.
C25_ForcedIgnoresTtl ==
  [][\A p \in ProcIds :
       ((Call(p, TRUE) \/ ForcedCallBy(p)) /\ ~memoryCache.isLoading) =>
         /\ memoryCache' = [memoryCache EXCEPT !.isLoading = TRUE]
         /\ procs'[p].pc = "download"
         /\ started' = started + 1]_vars

\* A forced call that entered Loading on a snapshot installed at this very
\* time by a refresh that has completed.
C25_Witness ==
  \E p \in ProcIds :
    /\ procs[p].kind = "caller" /\ procs[p].force
    /\ procs[p].pc = "download"
    /\ procs[p].rid = 2
    /\ procs[p].pre.lastUpdate = now
    /\ MapSize(procs[p].pre.data) > 0
    /\ now - memoryCache.lastUpdate < cache_ttl_hours

\* C26: startup reaches the listening state and stays there: a fetch or parse
\* failure of a refresh that startServer started, after a failed disk load or
\* on a stale loaded cache, leaves the server listening; the error does not
\* end the process.
C26_StartupSurvivesFailure ==
  [][\A e \in FetchErrors :
       DownloadFail(Main, e) => phase' = "listening"]_vars

\* C28: when INTERNAL_API_KEY is configured, a POST /admin/refresh whose key
\* (header or query parameter, or none at all) differs from it is answered
\* 401 and has no effect: no fetch is started and the snapshot, lastUpdate,
\* isLoading and the cache file are unchanged.
C28_UnauthorizedRefreshNoEffect ==
  [][\A p \in ProcIds, providedKey \in ProvidedKeys :
       (/\ config.internal_api_key # <<>>
        /\ providedKey # config.internal_api_key
        /\ AdminRefresh(p, providedKey)) =>
         /\ procs'[p].pc = "done"
         /\ procs'[p].resp.status = 401
         /\ memoryCache' = memoryCache
         /\ file' = file
         /\ started' = started
         /\ FetchesInFlight' = FetchesInFlight]_vars

\* A refresh request with a wrong key answered 401 while no refresh runs.
C28_Witness ==
  \E p \in ProcIds :
    /\ procs[p].kind = "refresh" /\ procs[p].pc = "done"
    /\ procs[p].resp.status = 401
    /\ config.internal_api_key # <<>>
    /\ ~memoryCache.isLoading
    /\ MapSize(memoryCache.data) > 0

\* C29: POST /admin/refresh answers 200 (cache updated successfully) only if
\* a refresh started by that request fetched, parsed and installed a snapshot
\* before the response, and the reported entries is the size of that snapshot.
C29_SuccessMeansOwnRefresh ==
  \A p \in ProcIds :
    (/\ procs[p].kind = "refresh" /\ procs[p].pc = "done"
     /\ procs[p].resp.status = 200) =>
      /\ procs[p].rid # 0
      /\ procs[p].result # NoDoc
      /\ procs[p].resp.body.entries = MapSize(procs[p].newData)

====
